---- MODULE Spec2Model ----
(***************************************************************************)
(* State-machine model of the synthetic e-commerce data generator          *)
(* (scripts/advanced_data_generator.py) and of the ingestion engine        *)
(* (scripts/advanced_ingestion.py).                                        *)
(*                                                                         *)
(* Money is kept in integers.  Stored amounts (price, unit_price,          *)
(* subtotal, total_amount) are cents.  Unrounded amounts (actual_price,    *)
(* quantity * actual_price, order_total) are hundredths of a cent, so that *)
(* round(x, 2) is a real rounding step and not the identity.               *)
(* Dates are day numbers from the start of the date range; a timestamp is  *)
(* a number of hours from the start of the range.                          *)
(***************************************************************************)
EXTENDS Integers, Sequences, FiniteSets, TLC

VARIABLES
    config,        \* self.config: the counts and the date range
    pc,            \* position of the generator's main()
    rng,           \* self.rng: the seed and the number of draws consumed
    stream,        \* the values the bit generator of that seed yields, in order
    customers,     \* the five generated tables (sequences of rows)
    products,
    orders,
    order_items,
    payments,
    current_date,  \* generate_orders_and_items: loop variable of the day walk
    daily_left,    \* iterations left in "for _ in range(daily_orders)"
    order_id,      \* generate_orders_and_items: next order id
    item_id,       \* generate_orders_and_items: next order item id
    csv,           \* data/<table>.csv on disk: [exists, rows] per table
    schema_doc,    \* data/schema_documentation.json has been written
    gen_exit,      \* how the generator's main() ended: "running", "ok", "raised"
    run,           \* number of the generator run (1, 2)
    prev,          \* the tables and files of the previous generator run
    ing_pc,        \* position of the ingestion's main()
    data_dir,      \* the data directory exists
    store,         \* rows committed in the relational store, per table
    store0,        \* the store as the ingestion run found it
    results,       \* ingest_all_data: results dict (table -> success flag)
    attempts,      \* tables handed to ingest_table, in call order
    log,           \* last outcome logged by ingest_table, per table
    report,        \* reports/ingestion_report.json: [written, ...]
    exit_code,     \* exit code of the ingestion's main(); -1 while running
    pipeline       \* run_complete_pipeline.main(): position, steps started,
                   \* their return codes, its exit code, completion logged

vars == <<config, pc, rng, stream, customers, products, orders, order_items, payments,
          current_date, daily_left, order_id, item_id, csv, schema_doc,
          gen_exit, run, prev, ing_pc, data_dir, store, store0, results,
          attempts, log, report, exit_code, pipeline>>

genVars == <<config, pc, rng, stream, customers, products, orders, order_items,
             payments, current_date, daily_left, order_id, item_id,
             schema_doc, gen_exit, run, prev>>

ingVars == <<ing_pc, data_dir, store, store0, results, attempts, log,
             report, exit_code>>

(***************************************************************************)
(* Bounds of the model.                                                    *)
(***************************************************************************)
\* cap on one Poisson draw, on the orders and on the order items of a run
MaxDailyOrders == 2
MaxOrders == 2
MaxItems == 4

(***************************************************************************)
(* Program constants.                                                      *)
(***************************************************************************)
Seed == 42
\* rng.integers(1, 5): 1..4 items; rng.integers(1, 3): quantity 1..2
MaxItemsPerOrder == 4
MaxQuantity == 2
\* status_idx = min(4, max(0, 4 - days_ago // 7))
DaysPerStatus == 7
\* expensive = price > 100, in cents
ExpensiveAbove == 10000
LastStatusIdx == 4
HoursPerDay == 24

\* self.config as set by a run: the counts, the last day of date_range as a
\* day number (the first day is 0), the categories, and the base prices of
\* price_range (in cents) the run can draw
Config(customer_count, product_count, last_day, categories, price_range) ==
    [customer_count |-> customer_count,
     product_count |-> product_count,
     order_count |-> 2,
     last_day |-> last_day,
     categories |-> categories,
     price_range |-> price_range]

Configs ==
    {Config(2, 1, 1, {"Clothing"}, {503}),
     Config(1, 2, 1, {"Clothing"}, {503})}

Tables == {"customers", "products", "orders", "order_items", "payments"}

order_statuses == <<"pending", "processing", "shipped", "delivered", "cancelled">>

\* price_multipliers, in tenths
price_multipliers(category) ==
    CASE category = "Electronics" -> 12
      [] category = "Beauty" -> 11
      [] category = "Clothing" -> 10
      [] category = "Sports" -> 9
      [] category = "Home & Garden" -> 8
      [] category = "Books" -> 7
      [] OTHER -> 10

(***************************************************************************)
(* The values the model draws where the code draws at random.              *)
(***************************************************************************)
\* rng.choice(categories)
CategoryDraws == config.categories
\* rng.uniform(*self.config['price_range']), in cents
BasePriceDraws == config.price_range
\* rng.uniform(0.8, 1.0), in percent
DiscountDraws == {80}
\* rng.integers(1, 24)
HourDraws == {1, 23}

Min(a, b) == IF a < b THEN a ELSE b

Max(a, b) == IF a < b THEN b ELSE a

(***************************************************************************)
(* round(): x / unit rounded to the nearest integer, ties to even.         *)
(***************************************************************************)
Round(x, unit) ==
    LET q == x \div unit
        r == x % unit
    IN  IF 2 * r < unit THEN q
        ELSE IF 2 * r > unit THEN q + 1
        ELSE IF q % 2 = 0 THEN q ELSE q + 1

\* round(x, 2) of an amount in hundredths of a cent: cents
Round2(x) == Round(x, 100)

(***************************************************************************)
(* The seeded random source.  A generator constructed with a seed yields   *)
(* the stream of that seed: a draw at a position the stream already holds  *)
(* is that value, a draw past its end is any value of the range and        *)
(* extends the stream.                                                     *)
(***************************************************************************)
UnseededDraws(S) == S

Draws(S) ==
    IF rng.pos < Len(stream) THEN {stream[rng.pos + 1]} \cap S ELSE S

Consume(d) ==
    /\ rng' = [rng EXCEPT !.pos = rng.pos + 1]
    /\ stream' = IF rng.pos < Len(stream) THEN stream ELSE Append(stream, d)

RECURSIVE SumSeq(_)
SumSeq(s) == IF s = <<>> THEN 0 ELSE s[1] + SumSeq(Tail(s))

Column(table, col) == {table[i][col] : i \in 1..Len(table)}

NoTable == <<>>

\* a file of the data directory: whether it exists, whether pd.read_csv can
\* parse it, and its rows
NoFile == [exists |-> FALSE, readable |-> FALSE, rows |-> <<>>]

File(rows) == [exists |-> TRUE, readable |-> TRUE, rows |-> rows]

(***************************************************************************)
(* generate_customers                                                      *)
(***************************************************************************)
CustomerRows(active) ==
    [i \in 1..config.customer_count |-> [customer_id |-> i, is_active |-> active[i]]]

GenerateCustomers ==
    /\ pc = "customers"
    /\ \E d \in Draws([1..config.customer_count -> BOOLEAN]) :
          /\ customers' = CustomerRows(d)
          /\ Consume(d)
    /\ pc' = "products"
    /\ UNCHANGED <<products, orders, order_items, payments, current_date,
                   daily_left, order_id, item_id, csv, schema_doc, gen_exit,
                   run, prev>>
    /\ UNCHANGED <<config, ingVars, pipeline>>

(***************************************************************************)
(* generate_products                                                       *)
(***************************************************************************)
\* price = round(base_price * price_multipliers.get(category, 1.0), 2), cents
Price(base_price, category) == Round(base_price * price_multipliers(category), 10)

\* expensive = price > 100
Expensive(price) == price > ExpensiveAbove

stock_rangesMutant(category, expensive) ==
    CASE category = "Electronics" -> IF expensive THEN <<0, 50>> ELSE <<10, 100>>
      [] category = "Clothing" -> <<20, 200>>
      [] category = "Books" -> <<50, 500>>
      [] category = "Sports" -> <<10, 100>>
      [] category = "Home & Garden" -> <<15, 150>>
      [] category = "Beauty" -> <<25, 250>>
      [] OTHER -> <<10, 100>>

\* stock_ranges.get(category, (10, 100)): (stock_min, stock_max)
stock_ranges(category, expensive) ==
    CASE category = "Electronics" -> IF expensive THEN <<5, 50>> ELSE <<10, 100>>
      [] category = "Clothing" -> <<20, 200>>
      [] category = "Books" -> <<50, 500>>
      [] category = "Sports" -> <<10, 100>>
      [] category = "Home & Garden" -> <<15, 150>>
      [] category = "Beauty" -> <<25, 250>>
      [] OTHER -> <<10, 100>>

\* rng.integers(stock_min, stock_max) yields stock_min..stock_max - 1; the
\* two ends of that range
StockDraws(category, price) ==
    LET range == stock_ranges(category, Expensive(price))
    IN  {range[1], range[2] - 1}

ProductDraw ==
    UNION {[category : {c}, base_price : {b},
            stock_quantity : StockDraws(c, Price(b, c)), is_active : BOOLEAN] :
              <<c, b>> \in CategoryDraws \X BasePriceDraws}

ProductRows(d) ==
    [i \in 1..config.product_count |->
        [product_id |-> i,
         category |-> d[i].category,
         price |-> Price(d[i].base_price, d[i].category),
         stock_quantity |-> d[i].stock_quantity,
         is_active |-> d[i].is_active]]

GenerateProducts ==
    /\ pc = "products"
    /\ \E d \in Draws([1..config.product_count -> ProductDraw]) :
          /\ products' = ProductRows(d)
          /\ Consume(d)
    /\ pc' = "orders"
    /\ current_date' = 0
    /\ daily_left' = 0
    /\ order_id' = 1
    /\ item_id' = 1
    /\ UNCHANGED <<customers, orders, order_items, payments, csv, schema_doc,
                   gen_exit, run, prev>>
    /\ UNCHANGED <<config, ingVars, pipeline>>

(***************************************************************************)
(* generate_orders_and_items                                               *)
(***************************************************************************)
IsActive(row) == row.is_active

\* customers[customers['is_active']], products[products['is_active']]
active_customers == SelectSeq(customers, IsActive)

active_productsMutant == products

active_products == SelectSeq(products, IsActive)

\* status of an order placed on day date
StatusIdx(date) ==
    LET days_ago == config.last_day - date
    IN  Min(LastStatusIdx, Max(0, LastStatusIdx - days_ago \div DaysPerStatus))

OrderStatus(date) == order_statuses[StatusIdx(date) + 1]

\* actual_price = product['price'] * rng.uniform(0.8, 1.0), hundredths of a cent
ActualPrice(product, discount) == product.price * discount

\* the order_items row of one draw
ItemRow(id, oid, it) ==
    LET product == active_products[it.product]
        actual_price == ActualPrice(product, it.discount)
    IN  [order_item_id |-> id,
         order_id |-> oid,
         product_id |-> product.product_id,
         quantity |-> it.quantity,
         unit_price |-> Round2(actual_price),
         subtotal |-> Round2(it.quantity * actual_price)]

ItemRowsMutant(oid, first_id, items) ==
    [k \in 1..Len(items) |-> ItemRow(k, oid, items[k])]

\* the rows of one order: item_id is incremented after each append
ItemRows(oid, first_id, items) ==
    [k \in 1..Len(items) |-> ItemRow(first_id + k - 1, oid, items[k])]

\* order_total after the item loop, hundredths of a cent
OrderTotal(items) ==
    SumSeq([k \in 1..Len(items) |->
               items[k].quantity
                   * ActualPrice(active_products[items[k].product], items[k].discount)])

\* order['total_amount'] = round(order_total, 2)
TotalAmount(items) == Round2(OrderTotal(items))

OrderRowMutant(oid, d) ==
    [order_id |-> oid,
     customer_id |-> d.customer - 1,
     order_date |-> current_date,
     status |-> OrderStatus(current_date),
     total_amount |-> TotalAmount(d.items)]

OrderRow(oid, d) ==
    [order_id |-> oid,
     customer_id |-> active_customers[d.customer].customer_id,
     order_date |-> current_date,
     status |-> OrderStatus(current_date),
     total_amount |-> TotalAmount(d.items)]

ItemDraw ==
    [product : 1..Len(active_products), quantity : 1..MaxQuantity,
     discount : DiscountDraws]

\* the draws of one iteration of the order loop: the customer, num_items and
\* the product, quantity and discount of each item
OrderDraw(max_items) ==
    UNION {[customer : 1..Len(active_customers), items : [1..n -> ItemDraw]] :
              n \in 1..Min(MaxItemsPerOrder, max_items)}

\* current_date += timedelta(days=1), and the end of the while loop
AdvanceDay ==
    /\ current_date' = current_date + 1
    /\ pc' = IF current_date + 1 <= config.last_day THEN "orders" ELSE "payments"

\* top of the while loop: daily_orders = rng.poisson(base_orders_per_day)
StartDay ==
    /\ pc = "orders"
    /\ daily_left = 0
    /\ current_date <= config.last_day
    /\ \E n \in Draws(0..Min(MaxDailyOrders,
                             Min(MaxOrders - Len(orders),
                                 MaxItems - Len(order_items)))) :
          /\ daily_left' = n
          /\ Consume(n)
          /\ IF n = 0 THEN AdvanceDay
             ELSE UNCHANGED <<current_date, pc>>
    /\ UNCHANGED <<customers, products, orders, order_items, payments,
                   order_id, item_id, csv, schema_doc, gen_exit, run, prev>>
    /\ UNCHANGED <<config, ingVars, pipeline>>

\* one iteration of "for _ in range(daily_orders)"; rng.integers(0, 0) raises
\* ValueError when no customer or no product is active
GenerateOrder ==
    /\ pc = "orders"
    /\ daily_left > 0
    /\ IF Len(active_customers) = 0 \/ Len(active_products) = 0
       THEN /\ pc' = "failed"
            /\ gen_exit' = "raised"
            /\ UNCHANGED <<rng, stream, orders, order_items, current_date,
                           daily_left, order_id, item_id>>
       ELSE /\ \E d \in Draws(OrderDraw(MaxItems - Len(order_items)
                                           - (daily_left - 1))) :
                  /\ order_items' = order_items \o ItemRows(order_id, item_id, d.items)
                  /\ orders' = Append(orders, OrderRow(order_id, d))
                  /\ item_id' = item_id + Len(d.items)
                  /\ Consume(d)
            /\ order_id' = order_id + 1
            /\ daily_left' = daily_left - 1
            /\ IF daily_left = 1 THEN AdvanceDay
               ELSE UNCHANGED <<current_date, pc>>
            /\ UNCHANGED gen_exit
    /\ UNCHANGED <<customers, products, payments, csv, schema_doc, run, prev>>
    /\ UNCHANGED <<config, ingVars, pipeline>>

(***************************************************************************)
(* generate_payments                                                       *)
(***************************************************************************)
PaymentDraw == [hours : HourDraws, coin : BOOLEAN]

PaymentStatusMutant(status, coin) ==
    IF status # "cancelled"
    THEN (IF coin THEN "refunded" ELSE "failed")
    ELSE (IF coin THEN "completed" ELSE "failed")

\* cancelled: 'refunded' if rng.random() > 0.5 else 'failed'
\* otherwise: 'completed' if rng.random() > 0.05 else 'failed'
PaymentStatus(status, coin) ==
    IF status = "cancelled"
    THEN (IF coin THEN "refunded" ELSE "failed")
    ELSE (IF coin THEN "completed" ELSE "failed")

PaymentRowMutant(id, order, d) ==
    [payment_id |-> id,
     order_id |-> order.order_id,
     amount |-> order.total_amount,
     payment_status |-> PaymentStatus(order.status, d.coin),
     payment_date |-> order.order_date * HoursPerDay + d.hours - 1]

\* payment_date = order['order_date'] + timedelta(hours=rng.integers(1, 24))
PaymentRow(id, order, d) ==
    [payment_id |-> id,
     order_id |-> order.order_id,
     amount |-> order.total_amount,
     payment_status |-> PaymentStatus(order.status, d.coin),
     payment_date |-> order.order_date * HoursPerDay + d.hours]

PaymentRowsMutant(ords, d) ==
    [i \in 1..(Len(ords) - 1) |-> PaymentRow(i, ords[i], d[i])]

\* one payment per row of orders.iterrows()
PaymentRows(ords, d) ==
    [i \in 1..Len(ords) |-> PaymentRow(i, ords[i], d[i])]

GeneratePayments ==
    /\ pc = "payments"
    /\ \E d \in Draws([1..Len(orders) -> PaymentDraw]) :
          /\ payments' = PaymentRows(orders, d)
          /\ Consume(d)
    /\ pc' = "validate"
    /\ UNCHANGED <<customers, products, orders, order_items, current_date,
                   daily_left, order_id, item_id, csv, schema_doc, gen_exit,
                   run, prev>>
    /\ UNCHANGED <<config, ingVars, pipeline>>

(***************************************************************************)
(* _validate_data_integrity                                                *)
(***************************************************************************)
\* pd.DataFrame([]) has no columns: orders['customer_id'] raises KeyError
\* when no order was generated
HasColumns(table) == Len(table) > 0

ForeignKeysOk(c, p, o, oi, pay) ==
    /\ Column(o, "customer_id") \subseteq Column(c, "customer_id")
    /\ Column(oi, "order_id") \subseteq Column(o, "order_id")
    /\ Column(oi, "product_id") \subseteq Column(p, "product_id")
    /\ Column(pay, "order_id") \subseteq Column(o, "order_id")

ValuesOkMutant(p, oi) ==
    /\ \A i \in 1..Len(oi) : oi[i].quantity >= 0
    /\ \A i \in 1..Len(oi) : oi[i].unit_price >= 0
    /\ \A i \in 1..Len(p) : p[i].price > 0

ValuesOk(p, oi) ==
    /\ \A i \in 1..Len(oi) : oi[i].quantity > 0
    /\ \A i \in 1..Len(oi) : oi[i].unit_price >= 0
    /\ \A i \in 1..Len(p) : p[i].price > 0

\* TRUE when _validate_data_integrity returns, FALSE when it raises
ValidateDataIntegrity(c, p, o, oi, pay) ==
    /\ HasColumns(c) /\ HasColumns(p) /\ HasColumns(o)
    /\ HasColumns(oi) /\ HasColumns(pay)
    /\ ForeignKeysOk(c, p, o, oi, pay)
    /\ ValuesOk(p, oi)

\* the last step of generate_all_data; main() logs and re-raises on failure
Validate ==
    /\ pc = "validate"
    /\ IF ValidateDataIntegrity(customers, products, orders, order_items, payments)
       THEN pc' = "export" /\ UNCHANGED gen_exit
       ELSE pc' = "failed" /\ gen_exit' = "raised"
    /\ UNCHANGED <<rng, stream, customers, products, orders, order_items,
                   payments, current_date, daily_left, order_id, item_id, csv,
                   schema_doc, run, prev>>
    /\ UNCHANGED <<config, ingVars, pipeline>>

(***************************************************************************)
(* main: the CSV export and the schema documentation                       *)
(***************************************************************************)
Datasets ==
    [customers |-> customers, products |-> products, orders |-> orders,
     order_items |-> order_items, payments |-> payments]

\* df.to_csv: every generated value is written as text, none is None or NaN,
\* so no cell of the file reads back as null
ToCsv(table) ==
    [i \in 1..Len(table) |->
        [c \in DOMAIN table[i] \cup {"nulls"} |->
            IF c = "nulls" THEN {} ELSE table[i][c]]]

\* output_dir.mkdir(exist_ok=True), then df.to_csv(filename, index=False)
\* for each of the five datasets
ExportCsv ==
    /\ pc = "export"
    /\ data_dir' = TRUE
    /\ csv' = [t \in Tables |-> File(ToCsv(Datasets[t]))]
    /\ pc' = "schema"
    /\ UNCHANGED <<rng, stream, customers, products, orders, order_items,
                   payments, current_date, daily_left, order_id, item_id,
                   schema_doc, gen_exit, run, prev>>
    /\ UNCHANGED <<config, ing_pc, store, store0, results, attempts, log,
                   report, exit_code, pipeline>>

GenerateSchemaDocumentation ==
    /\ pc = "schema"
    /\ schema_doc' = TRUE
    /\ pc' = "done"
    /\ gen_exit' = "ok"
    /\ UNCHANGED <<rng, stream, customers, products, orders, order_items,
                   payments, current_date, daily_left, order_id, item_id, csv,
                   run, prev>>
    /\ UNCHANGED <<config, ingVars, pipeline>>

(***************************************************************************)
(* A second run of main(): AdvancedEcommerceDataGenerator(seed=42) is      *)
(* constructed afresh with the same seed.                                  *)
(***************************************************************************)
Snapshot ==
    [pc |-> pc, datasets |-> Datasets, csv |-> csv, schema_doc |-> schema_doc]

NoSnapshot ==
    [pc |-> "none",
     datasets |-> [t \in Tables |-> NoTable],
     csv |-> [t \in Tables |-> NoFile],
     schema_doc |-> FALSE]

Rerun ==
    /\ pc \in {"done", "failed"}
    /\ run = 1
    /\ run' = 2
    /\ prev' = Snapshot
    /\ rng' = [seed |-> Seed, pos |-> 0]
    /\ pc' = "customers"
    /\ gen_exit' = "running"
    /\ customers' = NoTable
    /\ products' = NoTable
    /\ orders' = NoTable
    /\ order_items' = NoTable
    /\ payments' = NoTable
    /\ current_date' = 0
    /\ daily_left' = 0
    /\ order_id' = 1
    /\ item_id' = 1
    /\ UNCHANGED <<stream, csv, schema_doc>>
    /\ UNCHANGED <<config, ingVars, pipeline>>

(***************************************************************************)
(* The ingestion engine: the files it reads.  A row is a record of its     *)
(* columns; row.nulls names the columns whose cell is empty (NaN).         *)
(***************************************************************************)
ingestion_order == <<"customers", "products", "orders", "order_items", "payments">>

critical_columns(table_name) ==
    CASE table_name = "customers" ->
             {"customer_id", "email", "first_name", "last_name"}
      [] table_name = "products" -> {"product_id", "product_name", "price"}
      [] table_name = "orders" ->
             {"order_id", "customer_id", "order_date", "total_amount"}
      [] table_name = "order_items" ->
             {"order_item_id", "order_id", "product_id", "quantity"}
      [] table_name = "payments" ->
             {"payment_id", "order_id", "amount", "payment_status"}
      [] OTHER -> {}

\* the primary key column of each model class
PrimaryKey(table_name) ==
    CASE table_name = "customers" -> "customer_id"
      [] table_name = "products" -> "product_id"
      [] table_name = "orders" -> "order_id"
      [] table_name = "order_items" -> "order_item_id"
      [] table_name = "payments" -> "payment_id"

\* a well-formed row of each file
ValidRow(table_name, id) ==
    CASE table_name = "customers" ->
             [customer_id |-> id, email |-> id, first_name |-> id,
              last_name |-> id, country |-> 1, nulls |-> {}]
      [] table_name = "products" ->
             [product_id |-> id, product_name |-> id, price |-> 352,
              category |-> 1, nulls |-> {}]
      [] table_name = "orders" ->
             [order_id |-> id, customer_id |-> 1, order_date |-> 0,
              total_amount |-> 402, status |-> 1, nulls |-> {}]
      [] table_name = "order_items" ->
             [order_item_id |-> id, order_id |-> 1, product_id |-> 1,
              quantity |-> 1, unit_price |-> 402, nulls |-> {}]
      [] table_name = "payments" ->
             [payment_id |-> id, order_id |-> id, amount |-> 402,
              payment_status |-> 1, payment_method |-> 1, nulls |-> {}]

\* a critical column and a non-critical NOT NULL column of each file
SomeCriticalColumn(table_name) ==
    CASE table_name = "customers" -> "email"
      [] table_name = "products" -> "product_name"
      [] table_name = "orders" -> "order_date"
      [] table_name = "order_items" -> "product_id"
      [] table_name = "payments" -> "payment_status"

SomeOtherColumn(table_name) ==
    CASE table_name = "customers" -> "country"
      [] table_name = "products" -> "category"
      [] table_name = "orders" -> "status"
      [] table_name = "order_items" -> "unit_price"
      [] table_name = "payments" -> "payment_method"

WithNull(row, col) == [row EXCEPT !.nulls = {col}]

\* the files the model draws for one table
FileDraws(table_name) ==
    LET r1 == ValidRow(table_name, 1)
        r2 == ValidRow(table_name, 2)
    IN  {NoFile,
         [exists |-> TRUE, readable |-> FALSE, rows |-> <<>>],
         File(<<r1, r2>>),
         File(<<r1, WithNull(r2, SomeCriticalColumn(table_name))>>),
         File(<<r1, WithNull(r2, SomeOtherColumn(table_name))>>),
         File(<<r2, r2>>)}
    \cup (IF table_name = "products"
          THEN {File(<<r1, [r2 EXCEPT !.price = -1]>>)} ELSE {})
    \cup (IF table_name = "order_items"
          THEN {File(<<r1, [r2 EXCEPT !.quantity = 0]>>)} ELSE {})

\* the store an ingestion run finds: empty, or holding the rows of an earlier run
StoreDraws ==
    {[t \in Tables |-> {}], [t \in Tables |-> {ValidRow(t, 1)}]}

(***************************************************************************)
(* validate_data_quality                                                   *)
(***************************************************************************)
Columns(rows) == IF Len(rows) = 0 THEN {} ELSE DOMAIN rows[1] \ {"nulls"}

IsNull(row, col) == col \in row.nulls

NullInCritical(rows, table_name) ==
    \E col \in critical_columns(table_name) \cap Columns(rows) :
        \E i \in 1..Len(rows) : IsNull(rows[i], col)

\* (df['quantity'] <= 0).any(): a NaN cell compares False
InvalidQuantity(rows) ==
    /\ "quantity" \in Columns(rows)
    /\ \E i \in 1..Len(rows) :
          ~IsNull(rows[i], "quantity") /\ rows[i].quantity <= 0

NegativePrice(rows) ==
    /\ "price" \in Columns(rows)
    /\ \E i \in 1..Len(rows) : ~IsNull(rows[i], "price") /\ rows[i].price < 0

\* validation_results['is_valid']
IsValid(rows, table_name) ==
    /\ ~NullInCritical(rows, table_name)
    /\ ~InvalidQuantity(rows)
    /\ ~NegativePrice(rows)

(***************************************************************************)
(* The bulk insert of ingest_table, in one transaction of the session.     *)
(***************************************************************************)
Keys(rows, table_name) == {r[PrimaryKey(table_name)] : r \in rows}

SeqToSet(s) == {s[i] : i \in 1..Len(s)}

\* the parent rows the schema's foreign keys of a row name
ParentMissing(table_name, row) ==
    CASE table_name = "orders" ->
             row.customer_id \notin Keys(store["customers"], "customers")
      [] table_name = "order_items" ->
             \/ row.order_id \notin Keys(store["orders"], "orders")
             \/ row.product_id \notin Keys(store["products"], "products")
      [] table_name = "payments" ->
             row.order_id \notin Keys(store["orders"], "orders")
      [] OTHER -> FALSE

RowRejectedMutant(table_name, row, present) ==
    \/ row[PrimaryKey(table_name)] \in Keys(present, table_name)
    \/ row.nulls # {}
    \/ ParentMissing(table_name, row)

\* the INSERT of one row raises IntegrityError: its primary key is present
\* already, or a column declared nullable=False is NULL.  The engine is
\* created without PRAGMA foreign_keys, so SQLite checks no foreign key.
RowRejected(table_name, row, present) ==
    \/ row[PrimaryKey(table_name)] \in Keys(present, table_name)
    \/ row.nulls # {}

\* the number of rows session.bulk_save_objects inserts before one is rejected
RECURSIVE Flushed(_, _, _, _)
Flushed(table_name, rows, present, n) ==
    IF n = Len(rows) THEN n
    ELSE IF RowRejected(table_name, rows[n + 1], present) THEN n
    ELSE Flushed(table_name, rows, present \cup {rows[n + 1]}, n + 1)

RollbackMutant(committed, inserted) == committed \cup inserted

\* session.rollback(): the rows inserted in the transaction are discarded
Rollback(committed, inserted) == committed

\* session.commit()
Commit(committed, inserted) == committed \cup inserted

(***************************************************************************)
(* ingest_table: the outcome it logs and the rows of the table afterwards  *)
(***************************************************************************)
IngestOutcome(table_name, file, committed) ==
    IF ~file.exists THEN "not_found"
    ELSE IF ~file.readable THEN "error"
    ELSE IF ~IsValid(file.rows, table_name) THEN "invalid"
    ELSE IF Flushed(table_name, file.rows, committed, 0) < Len(file.rows)
         THEN "db_error"
    ELSE "ok"

StoreAfter(table_name, file, committed) ==
    LET outcome == IngestOutcome(table_name, file, committed)
        n == Flushed(table_name, file.rows, committed, 0)
        inserted == SeqToSet(SubSeq(file.rows, 1, n))
    IN  IF outcome = "ok" THEN Commit(committed, inserted)
        ELSE IF outcome = "db_error" THEN Rollback(committed, inserted)
        ELSE committed

(***************************************************************************)
(* main and ingest_all_data of the ingestion engine                        *)
(***************************************************************************)
NoReport == [written |-> FALSE]

\* initialize_database: the schema and the indexes are created, or
\* SQLAlchemyError is caught and main exits with code 1
InitializeDatabase ==
    /\ ing_pc = "start"
    /\ \E ok \in BOOLEAN :
          IF ok THEN ing_pc' = "ingest_all" /\ UNCHANGED exit_code
          ELSE ing_pc' = "exited" /\ exit_code' = 1
    /\ UNCHANGED <<data_dir, store, store0, results, attempts, log, report>>
    /\ UNCHANGED <<genVars, csv, pipeline>>

\* ingest_all_data: "if not data_dir.exists(): return results"
CheckDataDir ==
    /\ ing_pc = "ingest_all"
    /\ ing_pc' = IF data_dir THEN "loop" ELSE "check"
    /\ UNCHANGED <<data_dir, store, store0, results, attempts, log, report,
                   exit_code>>
    /\ UNCHANGED <<genVars, csv, pipeline>>

\* one iteration of "for csv_file in ingestion_order"
IngestTable ==
    /\ ing_pc = "loop"
    /\ LET table_name == ingestion_order[Len(attempts) + 1]
           outcome == IngestOutcome(table_name, csv[table_name], store[table_name])
       IN  /\ attempts' = Append(attempts, table_name)
           /\ log' = [log EXCEPT ![table_name] = outcome]
           /\ store' = [store EXCEPT ![table_name] =
                            StoreAfter(table_name, csv[table_name], store[table_name])]
           /\ results' = [t \in DOMAIN results \cup {table_name} |->
                             IF t = table_name THEN outcome = "ok" ELSE results[t]]
    /\ ing_pc' = IF Len(attempts) + 1 = Len(ingestion_order) THEN "report" ELSE "loop"
    /\ UNCHANGED <<data_dir, store0, report, exit_code>>
    /\ UNCHANGED <<genVars, csv, pipeline>>

Successes(r) == Cardinality({t \in DOMAIN r : r[t]})

\* sum(results.values()) / len(results) * 100, in tenths of a percent
SuccessRate(r) == Round(1000 * Successes(r), Cardinality(DOMAIN r))

\* _generate_ingestion_report
GenerateIngestionReport ==
    /\ ing_pc = "report"
    /\ report' = [written |-> TRUE,
                  ingestion_results |-> results,
                  success_rate |-> SuccessRate(results)]
    /\ ing_pc' = "check"
    /\ UNCHANGED <<data_dir, store, store0, results, attempts, log, exit_code>>
    /\ UNCHANGED <<genVars, csv, pipeline>>

\* main: "if all(results.values())", else sys.exit(1)
CheckResults ==
    /\ ing_pc = "check"
    /\ exit_code' = IF \A t \in DOMAIN results : results[t] THEN 0 ELSE 1
    /\ ing_pc' = "exited"
    /\ UNCHANGED <<data_dir, store, store0, results, attempts, log, report>>
    /\ UNCHANGED <<genVars, csv, pipeline>>

(***************************************************************************)
(* Initial states and specifications.                                      *)
(***************************************************************************)
GenStart(configs) ==
    /\ config \in configs
    /\ pc = "customers"
    /\ rng = [seed |-> Seed, pos |-> 0]
    /\ stream = <<>>
    /\ customers = NoTable
    /\ products = NoTable
    /\ orders = NoTable
    /\ order_items = NoTable
    /\ payments = NoTable
    /\ current_date = 0
    /\ daily_left = 0
    /\ order_id = 1
    /\ item_id = 1
    /\ csv = [t \in Tables |-> NoFile]
    /\ schema_doc = FALSE
    /\ gen_exit = "running"
    /\ run = 1
    /\ prev = NoSnapshot

\* the ingestion engine is not running
IngIdle ==
    /\ ing_pc = "idle"
    /\ data_dir = TRUE
    /\ store = [t \in Tables |-> {}]
    /\ store0 = [t \in Tables |-> {}]
    /\ results = <<>>
    /\ attempts = <<>>
    /\ log = [t \in Tables |-> "none"]
    /\ report = NoReport
    /\ exit_code = -1

\* run_complete_pipeline.py is not running
NoPipeline ==
    [pc |-> "idle", started |-> <<>>, returncodes |-> <<>>, exit_code |-> -1,
     completed |-> FALSE]

Init == GenStart(Configs) /\ IngIdle /\ pipeline = NoPipeline

GenNext ==
    \/ GenerateCustomers
    \/ GenerateProducts
    \/ StartDay
    \/ GenerateOrder
    \/ GeneratePayments
    \/ Validate
    \/ ExportCsv
    \/ GenerateSchemaDocumentation

Next == GenNext

Spec == Init /\ [][Next]_vars

\* two runs of main() with the same seed
RerunConfigs == {Config(1, 1, 1, {"Clothing"}, {503})}

RerunInit == GenStart(RerunConfigs) /\ IngIdle /\ pipeline = NoPipeline

RerunNext == GenNext \/ Rerun

SpecRerun == RerunInit /\ [][RerunNext]_vars

\* _validate_data_integrity and the rest of main() on tables of one row
\* each, well-formed or not: the validator takes any five frames
GateCustomers == {<<[customer_id |-> 1, is_active |-> TRUE]>>}

GateProducts ==
    {<<[product_id |-> 1, category |-> "Books", price |-> p,
        stock_quantity |-> 50, is_active |-> TRUE]>> :
        p \in {-1, 0, 352}}

GateOrders ==
    {<<[order_id |-> 1, customer_id |-> c, order_date |-> 0,
        status |-> "cancelled", total_amount |-> 282]>> : c \in {1, 2}}

GateOrderItems ==
    {<<[order_item_id |-> 1, order_id |-> r.o, product_id |-> r.p,
        quantity |-> r.q, unit_price |-> r.u, subtotal |-> 282]>> :
        r \in [o : {1, 2}, p : {1, 2}, q : {-1, 0, 1}, u : {-1, 0, 282}]}

GatePayments ==
    {<<[payment_id |-> 1, order_id |-> o, amount |-> 282,
        payment_status |-> "refunded", payment_date |-> 1]>> : o \in {1, 2}}

GateInit ==
    /\ config \in {Config(1, 1, 0, {"Books"}, {503})}
    /\ pc = "validate"
    /\ rng = [seed |-> Seed, pos |-> 0]
    /\ stream = <<>>
    /\ customers \in GateCustomers
    /\ products \in GateProducts
    /\ orders \in GateOrders
    /\ order_items \in GateOrderItems
    /\ payments \in GatePayments
    /\ current_date = 1
    /\ daily_left = 0
    /\ order_id = 2
    /\ item_id = 2
    /\ csv = [t \in Tables |-> NoFile]
    /\ schema_doc = FALSE
    /\ gen_exit = "running"
    /\ run = 1
    /\ prev = NoSnapshot
    /\ IngIdle
    /\ pipeline = NoPipeline

GateNext ==
    \/ Validate
    \/ ExportCsv
    \/ GenerateSchemaDocumentation

SpecGate == GateInit /\ [][GateNext]_vars

\* the generator is not running; the data directory is as some earlier
\* program left it
GenIdle ==
    /\ config \in RerunConfigs
    /\ pc = "idle"
    /\ rng = [seed |-> Seed, pos |-> 0]
    /\ stream = <<>>
    /\ customers = NoTable
    /\ products = NoTable
    /\ orders = NoTable
    /\ order_items = NoTable
    /\ payments = NoTable
    /\ current_date = 0
    /\ daily_left = 0
    /\ order_id = 1
    /\ item_id = 1
    /\ schema_doc = FALSE
    /\ gen_exit = "ok"
    /\ run = 1
    /\ prev = NoSnapshot

IngInit ==
    /\ GenIdle
    /\ ing_pc = "start"
    /\ data_dir \in BOOLEAN
    /\ csv \in [customers : FileDraws("customers"),
                products : FileDraws("products"),
                orders : FileDraws("orders"),
                order_items : FileDraws("order_items"),
                payments : FileDraws("payments")]
    /\ data_dir = FALSE => \A t \in Tables : csv[t] = NoFile
    /\ store0 \in StoreDraws
    /\ store = store0
    /\ results = <<>>
    /\ attempts = <<>>
    /\ log = [t \in Tables |-> "none"]
    /\ report = NoReport
    /\ exit_code = -1
    /\ pipeline = NoPipeline

IngNext ==
    \/ InitializeDatabase
    \/ CheckDataDir
    \/ IngestTable
    \/ GenerateIngestionReport
    \/ CheckResults

SpecIngest == IngInit /\ [][IngNext]_vars

\* generate_customers and generate_products over every category and over
\* base prices at the ends of price_range and around the 'expensive' mark
ProductConfigs ==
    {Config(1, 2, 1,
            {"Electronics", "Clothing", "Home & Garden", "Books", "Sports", "Beauty"},
            {500, 8333, 8334, 49999})}

ProductsInit == GenStart(ProductConfigs) /\ IngIdle /\ pipeline = NoPipeline

ProductsNext == GenerateCustomers \/ GenerateProducts

SpecProducts == ProductsInit /\ [][ProductsNext]_vars

\* a date range of eight days: orders of the first day are a week older
\* than orders of the last day
AgingConfigs == {Config(1, 1, 7, {"Clothing"}, {503})}

AgingInit == GenStart(AgingConfigs) /\ IngIdle /\ pipeline = NoPipeline

SpecAging == AgingInit /\ [][GenNext]_vars

(***************************************************************************)
(* run_complete_pipeline.py: main() runs four commands, each a child       *)
(* process whose return code run_command turns into True (0) or False.     *)
(***************************************************************************)
pipeline_steps == <<"generation", "ingestion", "quality_tests", "query_validation">>

\* the step main() is at
CurrentStep == pipeline_steps[Len(pipeline.started)]

\* return code of "python scripts/advanced_data_generator.py": main() logs
\* and re-raises, and the interpreter ends an uncaught exception with code 1
GeneratorReturncode == IF gen_exit = "ok" THEN 0 ELSE 1

\* return codes of the test scripts, which are programs of their own
TestReturncodes == {0, 1}

\* subprocess.run(command, shell=True, check=True, ...): the child starts
RunCommandStarts ==
    /\ pipeline.pc = "launch"
    /\ pipeline' = [pipeline EXCEPT
                       !.pc = "wait",
                       !.started = Append(@, pipeline_steps[Len(@) + 1])]

RunCommandReturnsMutant(returncode) ==
    pipeline' = [pipeline EXCEPT
                    !.returncodes = Append(@, returncode),
                    !.pc = IF Len(pipeline.started) = Len(pipeline_steps)
                           THEN "exited" ELSE "launch",
                    !.exit_code = IF Len(pipeline.started) = Len(pipeline_steps)
                                  THEN 0 ELSE @,
                    !.completed = Len(pipeline.started) = Len(pipeline_steps)]

\* the child ended: run_command returns returncode = 0, and main() goes to
\* the next step, logs the completion after the last one, or sys.exit(1)
RunCommandReturns(returncode) ==
    pipeline' = [pipeline EXCEPT
                    !.returncodes = Append(@, returncode),
                    !.pc = IF returncode # 0 THEN "exited"
                           ELSE IF Len(pipeline.started) = Len(pipeline_steps)
                           THEN "exited" ELSE "launch",
                    !.exit_code = IF returncode # 0 THEN 1
                                  ELSE IF Len(pipeline.started) = Len(pipeline_steps)
                                  THEN 0 ELSE @,
                    !.completed = /\ returncode = 0
                                  /\ Len(pipeline.started) = Len(pipeline_steps)]

\* Step 1: the generator process starts
LaunchGeneration ==
    /\ Len(pipeline.started) = 0
    /\ RunCommandStarts
    /\ pc' = "customers"
    /\ gen_exit' = "running"
    /\ UNCHANGED <<config, rng, stream, customers, products, orders,
                   order_items, payments, current_date, daily_left, order_id,
                   item_id, csv, schema_doc, run, prev>>
    /\ UNCHANGED ingVars

GenerationReturns ==
    /\ pipeline.pc = "wait"
    /\ CurrentStep = "generation"
    /\ pc \in {"done", "failed"}
    /\ RunCommandReturns(GeneratorReturncode)
    /\ UNCHANGED <<genVars, csv, ingVars>>

\* Step 2: the ingestion process starts, on the database it finds
LaunchIngestion ==
    /\ Len(pipeline.started) = 1
    /\ RunCommandStarts
    /\ ing_pc' = "start"
    /\ \E s \in StoreDraws : store0' = s /\ store' = s
    /\ UNCHANGED <<data_dir, results, attempts, log, report, exit_code>>
    /\ UNCHANGED <<genVars, csv>>

IngestionReturns ==
    /\ pipeline.pc = "wait"
    /\ CurrentStep = "ingestion"
    /\ ing_pc = "exited"
    /\ RunCommandReturns(exit_code)
    /\ UNCHANGED <<genVars, csv, ingVars>>

\* Steps 3 and 4: tests/test_data_generation.py and tests/test_queries.py
LaunchTests ==
    /\ Len(pipeline.started) \in {2, 3}
    /\ RunCommandStarts
    /\ UNCHANGED <<genVars, csv, ingVars>>

TestsReturn ==
    /\ pipeline.pc = "wait"
    /\ CurrentStep \in {"quality_tests", "query_validation"}
    /\ \E returncode \in TestReturncodes : RunCommandReturns(returncode)
    /\ UNCHANGED <<genVars, csv, ingVars>>

\* a fresh checkout: no data directory, neither child has run
PipelineInit ==
    /\ GenIdle
    /\ csv = [t \in Tables |-> NoFile]
    /\ ing_pc = "idle"
    /\ data_dir = FALSE
    /\ store = [t \in Tables |-> {}]
    /\ store0 = [t \in Tables |-> {}]
    /\ results = <<>>
    /\ attempts = <<>>
    /\ log = [t \in Tables |-> "none"]
    /\ report = NoReport
    /\ exit_code = -1
    /\ pipeline = [NoPipeline EXCEPT !.pc = "launch"]

PipelineNext ==
    \/ LaunchGeneration
    \/ GenNext
    \/ GenerationReturns
    \/ LaunchIngestion
    \/ IngNext
    \/ IngestionReturns
    \/ LaunchTests
    \/ TestsReturn

SpecPipeline == PipelineInit /\ [][PipelineNext]_vars

(***************************************************************************)
(* The claims.                                                             *)
(***************************************************************************)
ItemsOf(oid) == SelectSeq(order_items, LAMBDA r : r.order_id = oid)

SubtotalSum(oid) ==
    SumSeq([k \in 1..Len(ItemsOf(oid)) |-> ItemsOf(oid)[k].subtotal])

Generated == pc \in {"validate", "export", "schema", "done"}

\* C1: for every generated order, the stored total_amount equals the sum of
\* the stored subtotals of the order_items rows carrying its order_id.
C1_TotalEqualsSubtotals ==
    \A k \in 1..Len(orders) :
        orders[k].total_amount = SubtotalSum(orders[k].order_id)

\* C2: once the five tables are generated, every orders.customer_id is an
\* existing customer_id, every order_items.order_id and payments.order_id an
\* existing order_id, and every order_items.product_id an existing product_id.
C2_ReferentialIntegrity ==
    Generated =>
        /\ \A k \in 1..Len(orders) :
              \E i \in 1..Len(customers) :
                  customers[i].customer_id = orders[k].customer_id
        /\ \A k \in 1..Len(order_items) :
              /\ \E i \in 1..Len(orders) :
                    orders[i].order_id = order_items[k].order_id
              /\ \E i \in 1..Len(products) :
                    products[i].product_id = order_items[k].product_id
        /\ \A k \in 1..Len(payments) :
              \E i \in 1..Len(orders) :
                  orders[i].order_id = payments[k].order_id

C2_Witness ==
    /\ pc = "done"
    /\ Len(orders) = 2
    /\ Len(payments) = 2
    /\ Len(order_items) >= 3
    /\ \E i \in 1..Len(customers) : ~customers[i].is_active

\* C3: generate_payments emits exactly one payment per order: as many
\* payments as orders, and every order_id in exactly one payment row.
C3_OnePaymentPerOrder ==
    Generated =>
        /\ Len(payments) = Len(orders)
        /\ \A k \in 1..Len(orders) :
              Cardinality({i \in 1..Len(payments) :
                              payments[i].order_id = orders[k].order_id}) = 1
        /\ \A i \in 1..Len(payments) :
              \E k \in 1..Len(orders) : orders[k].order_id = payments[i].order_id

C3_Witness ==
    /\ pc = "validate"
    /\ Len(orders) = 2
    /\ Len(payments) = 2
    /\ payments[1].order_id # payments[2].order_id

AllFiveIngested ==
    \A t \in Tables :
        /\ t \in DOMAIN results
        /\ results[t]
        /\ log[t] = "ok"

\* C4: the ingestion entry point exits with a non-zero code whenever any of
\* the five tables failed ingestion (a missing data directory included), and
\* exits 0 only when all five tables were ingested successfully.
C4_ExitCodeReflectsFailures ==
    ing_pc = "exited" => (exit_code = 0 <=> AllFiveIngested)

\* C5: ingest_all_data attempts each of the five tables exactly once, in the
\* order customers, products, orders, order_items, payments, whatever the
\* earlier tables did, and records a success flag for each of the five.
C5_EveryTableAttempted ==
    ing_pc = "check" =>
        /\ attempts = ingestion_order
        /\ DOMAIN results = Tables

\* what the file and the earlier rows of one table alone decide: the file
\* parses, passes validation, and its rows can all be inserted
DistinctKeys(rows, table_name) ==
    \A i, j \in 1..Len(rows) :
        i # j => rows[i][PrimaryKey(table_name)] # rows[j][PrimaryKey(table_name)]

LoadsCleanly(table_name) ==
    LET file == csv[table_name]
    IN  /\ file.exists
        /\ file.readable
        /\ IsValid(file.rows, table_name)
        /\ \A i \in 1..Len(file.rows) : file.rows[i].nulls = {}
        /\ DistinctKeys(file.rows, table_name)
        /\ Keys(SeqToSet(file.rows), table_name)
               \cap Keys(store0[table_name], table_name) = {}

HasNullInCritical(table_name) ==
    /\ csv[table_name].exists
    /\ csv[table_name].readable
    /\ NullInCritical(csv[table_name].rows, table_name)

\* C6: a table whose input has a null in a critical column is marked failed
\* and none of its rows is inserted; the flags of the other tables are what
\* their own file and their own earlier rows decide, whatever that table held.
C6_NullCriticalFailsAlone ==
    \A t \in DOMAIN results :
        HasNullInCritical(t) =>
            /\ ~results[t]
            /\ log[t] = "invalid"
            /\ store[t] = store0[t]
            /\ \A u \in DOMAIN results \ {t} : results[u] = LoadsCleanly(u)

C6_Witness ==
    /\ ing_pc = "exited"
    /\ DOMAIN results = Tables
    /\ HasNullInCritical("customers")
    /\ ~results["customers"]
    /\ results["products"]
    /\ results["orders"]
    /\ results["order_items"]
    /\ results["payments"]

\* C7: when the bulk insert of a table fails, none of the rows of that
\* attempt remains in the store, the table is recorded as failed, the rows
\* committed for the other tables stay as they were committed, and the loop
\* goes on to the next table.
C7_RollbackPerTable ==
    /\ \A t \in Tables :
          /\ log[t] = "db_error" =>
                /\ t \in DOMAIN results
                /\ ~results[t]
                /\ store[t] = store0[t]
                /\ ing_pc = "loop" \/ Len(attempts) = Len(ingestion_order)
          /\ log[t] = "ok" =>
                store[t] = store0[t] \cup SeqToSet(csv[t].rows)
          /\ log[t] \notin {"db_error", "ok"} => store[t] = store0[t]

C7_Witness ==
    /\ ing_pc = "exited"
    /\ log["customers"] = "ok"
    /\ log["products"] = "db_error"
    /\ store0["products"] = {}
    /\ Flushed("products", csv["products"].rows, store0["products"], 0) = 1
    /\ log["orders"] = "ok"
    /\ store["customers"] # {}

Dangling ==
    \/ \E k \in 1..Len(orders) :
          \A i \in 1..Len(customers) :
              customers[i].customer_id # orders[k].customer_id
    \/ \E k \in 1..Len(order_items) :
          \/ \A i \in 1..Len(orders) :
                orders[i].order_id # order_items[k].order_id
          \/ \A i \in 1..Len(products) :
                products[i].product_id # order_items[k].product_id
    \/ \E k \in 1..Len(payments) :
          \A i \in 1..Len(orders) : orders[i].order_id # payments[k].order_id

Corrupt ==
    \/ Dangling
    \/ \E k \in 1..Len(order_items) : order_items[k].quantity <= 0
    \/ \E k \in 1..Len(order_items) : order_items[k].unit_price < 0
    \/ \E i \in 1..Len(products) : products[i].price < 0

\* C8: if the tables contain a dangling foreign key, a quantity <= 0, a
\* negative unit_price or a negative product price, validation raises,
\* main() ends with the error, and no CSV file and no schema documentation
\* is written.
C8_ValidatorIsHardGate ==
    Corrupt =>
        /\ pc \in {"validate", "failed"}
        /\ pc = "failed" => gen_exit = "raised"
        /\ \A t \in Tables : ~csv[t].exists
        /\ ~schema_doc

C8_Witness ==
    /\ pc = "failed"
    /\ gen_exit = "raised"
    /\ order_items[1].order_id = 2
    /\ order_items[1].quantity = 1
    /\ order_items[1].unit_price = 282
    /\ order_items[1].product_id = 1
    /\ orders[1].customer_id = 1
    /\ payments[1].order_id = 1
    /\ products[1].price = 352

UniqueIds(table, col) ==
    \A i, j \in 1..Len(table) : i # j => table[i][col] # table[j][col]

\* C10: the generator emits exactly the configured number of customers,
\* products and orders, each table with unique ids, and between 1 and 4
\* order_items rows per order.
C10_ConfiguredCounts ==
    pc = "done" =>
        /\ Len(customers) = config.customer_count
        /\ UniqueIds(customers, "customer_id")
        /\ Len(products) = config.product_count
        /\ UniqueIds(products, "product_id")
        /\ Len(orders) = config.order_count
        /\ UniqueIds(orders, "order_id")
        /\ Len(order_items) >= Len(orders)
        /\ Len(order_items) <= MaxItemsPerOrder * Len(orders)

\* C11: every run of ingest_all_data leaves a report with one success flag
\* for each of the five tables and a success_rate of 100 x successes over
\* attempts, to one decimal (here in tenths of a percent), which is 100.0
\* exactly when all five tables loaded; the rate is taken over a non-empty
\* result set.
C11_ReportEveryRun ==
    ing_pc = "check" =>
        /\ report.written
        /\ DOMAIN report.ingestion_results = Tables
        /\ Len(attempts) > 0
        /\ 10 * report.success_rate * Len(attempts)
               = 10000 * Cardinality({t \in Tables : log[t] = "ok"})
        /\ report.success_rate = 1000 <=> AllFiveIngested

\* C12: every generated product has price > 0 and stock_quantity > 0,
\* whatever its category, its base price and its stock draw.
C12_PositivePriceAndStock ==
    \A i \in 1..Len(products) :
        /\ products[i].price > 0
        /\ products[i].stock_quantity > 0

C12_Witness ==
    /\ pc = "orders"
    /\ products[1].category = "Electronics"
    /\ Expensive(products[1].price)
    /\ products[1].stock_quantity = 5
    /\ products[2].category = "Books"
    /\ products[2].price = 350

\* position of a status in the pipeline pending < processing < shipped <
\* delivered < cancelled
StatusRank(status) ==
    CHOOSE k \in 1..Len(order_statuses) : order_statuses[k] = status

DaysAgo(order) == config.last_day - order.order_date

\* C13: an order placed more days before the range end never has an
\* earlier-pipeline status than an order placed fewer days before it, and
\* the orders of the last week of the range are pending or processing.
C13_OlderOrdersFurtherAlong ==
    \A i, j \in 1..Len(orders) :
        /\ DaysAgo(orders[i]) > DaysAgo(orders[j]) =>
               StatusRank(orders[i].status) >= StatusRank(orders[j].status)
        /\ DaysAgo(orders[i]) < DaysPerStatus =>
               orders[i].status \in {"pending", "processing"}

\* C14: the stored subtotal of every order_items row equals its quantity
\* times its stored unit_price, to the cent.
C14_SubtotalIsQuantityTimesUnitPrice ==
    \A k \in 1..Len(order_items) :
        order_items[k].subtotal = order_items[k].quantity * order_items[k].unit_price

OrderOf(payment) ==
    CHOOSE o \in {orders[k] : k \in 1..Len(orders)} : o.order_id = payment.order_id

\* C15: the payment of a cancelled order is refunded or failed, never
\* completed; the payment of any other order is completed or failed, never
\* refunded.
C15_PaymentStatusFollowsOrderStatus ==
    \A i \in 1..Len(payments) :
        IF OrderOf(payments[i]).status = "cancelled"
        THEN payments[i].payment_status \in {"refunded", "failed"}
        ELSE payments[i].payment_status \in {"completed", "failed"}

C15_Witness ==
    /\ pc = "done"
    /\ Len(payments) = 2
    /\ orders[1].status = "delivered"
    /\ payments[1].payment_status = "completed"
    /\ orders[2].status = "cancelled"
    /\ payments[2].payment_status = "refunded"

\* hours from the order_date of the order a payment pays to its payment_date
HoursAfterOrder(payment) ==
    payment.payment_date - OrderOf(payment).order_date * HoursPerDay

\* C16: every payment_date is strictly later than the order_date of the
\* order it pays, by a whole number of hours of at least 1 and less than 24,
\* and the payment's amount is that order's total_amount.
C16_PaymentAfterOrderForTotal ==
    \A i \in 1..Len(payments) :
        /\ payments[i].payment_date > OrderOf(payments[i]).order_date * HoursPerDay
        /\ HoursAfterOrder(payments[i]) >= 1
        /\ HoursAfterOrder(payments[i]) < HoursPerDay
        /\ payments[i].amount = OrderOf(payments[i]).total_amount

C16_Witness ==
    /\ pc = "done"
    /\ Len(payments) = 2
    /\ orders[2].order_date = 1
    /\ HoursAfterOrder(payments[1]) = 1
    /\ HoursAfterOrder(payments[2]) = 23
    /\ payments[1].amount = 805
    /\ payments[2].amount = 402

\* C17: every order's customer_id is that of an active customer and every
\* order_items.product_id that of an active product.
C17_OnlyActiveReferenced ==
    /\ \A k \in 1..Len(orders) :
          \E i \in 1..Len(customers) :
              /\ customers[i].customer_id = orders[k].customer_id
              /\ customers[i].is_active
    /\ \A k \in 1..Len(order_items) :
          \E i \in 1..Len(products) :
              /\ products[i].product_id = order_items[k].product_id
              /\ products[i].is_active

C17_Witness ==
    /\ pc = "done"
    /\ Len(products) = 2
    /\ ~products[1].is_active
    /\ products[2].is_active
    /\ Len(orders) = 2
    /\ Len(order_items) = 4

\* C18: order_id values are 1, 2, ..., N in emission order and order_item_id
\* values 1, 2, ..., M across all orders; every order has between 1 and 4
\* items, adjacent in order_items (so their ids are consecutive); a higher
\* order_id never has an earlier order_date.
C18_IdsMonotone ==
    /\ \A k \in 1..Len(orders) : orders[k].order_id = k
    /\ \A k \in 1..Len(order_items) : order_items[k].order_item_id = k
    /\ \A k \in 1..Len(orders) :
          /\ Len(ItemsOf(k)) >= 1
          /\ Len(ItemsOf(k)) <= MaxItemsPerOrder
    /\ \A i, j \in 1..Len(order_items) :
          i < j => order_items[i].order_id <= order_items[j].order_id
    /\ \A i, j \in 1..Len(orders) :
          i < j => orders[i].order_date <= orders[j].order_date

C18_Witness ==
    /\ pc = "done"
    /\ Len(orders) = 2
    /\ Len(ItemsOf(1)) = 3
    /\ order_items[4].order_id = 2
    /\ order_items[4].order_item_id = 4
    /\ orders[1].order_date < orders[2].order_date

StepSucceeded(k) ==
    /\ k <= Len(pipeline.returncodes)
    /\ pipeline.returncodes[k] = 0

SomeStepFailed ==
    \E k \in 1..Len(pipeline.returncodes) : pipeline.returncodes[k] # 0

\* C19: the pipeline starts its steps in the order generation, ingestion,
\* data-quality tests, query validation, each only after every earlier step
\* returned code 0; at the first failing step it exits with code 1 and no
\* later step is started, so ingestion never starts after a failed
\* generation, and the completion message is logged only after all four
\* steps succeeded.
C19_PipelineStopsAtFirstFailure ==
    /\ pipeline.started = SubSeq(pipeline_steps, 1, Len(pipeline.started))
    /\ \A k \in 1..Len(pipeline.started) :
          \A j \in 1..(k - 1) : StepSucceeded(j)
    /\ SomeStepFailed =>
          /\ pipeline.pc = "exited"
          /\ pipeline.exit_code = 1
          /\ Len(pipeline.started) = Len(pipeline.returncodes)
          /\ ~pipeline.completed
    /\ gen_exit = "raised" => ing_pc = "idle"
    /\ ing_pc # "idle" => pc = "done" /\ gen_exit = "ok"
    /\ pipeline.completed =>
          /\ pipeline.exit_code = 0
          /\ Len(pipeline.started) = Len(pipeline_steps)
          /\ \A k \in 1..Len(pipeline_steps) : StepSucceeded(k)
          /\ gen_exit = "ok"
          /\ exit_code = 0
          /\ AllFiveIngested

C19_Witness ==
    /\ pipeline.pc = "exited"
    /\ pipeline.started = <<"generation">>
    /\ pipeline.returncodes = <<1>>
    /\ pipeline.exit_code = 1
    /\ pc = "failed"
    /\ Len(payments) = 0
    /\ ing_pc = "idle"

====
